---- MODULE Spec2Model ----
(***************************************************************************)
(* Model of bridge.js: the OpenBCI WiFi Shield -> serial bridge.           *)
(*                                                                         *)
(* Data path   : TCP socket -> tcpBuffer -> processTcpBuffer -> serial     *)
(* Command path: serial -> feedCmdBytes -> queueCmd -> sendShieldCommand   *)
(* Lifecycle   : 'b' / 's' trigger bytes -> timers -> startStream / stop   *)
(*                                                                         *)
(* Bytes are naturals 0..255, buffers and strings are sequences of bytes.  *)
(* Timestamps and the byte/connect counters that nothing reads             *)
(* (stats.tcpBytes, stats.tcpConnects, stats.last*At) are left out.        *)
(***************************************************************************)
EXTENDS Integers, Sequences, FiniteSets, TLC

VARIABLES
    \* ---- program state, TCP -> serial path (bridge.js 194-214)
    currentSocket,               \* tracked socket, NoSocket for null
    tcpBuffer,                   \* Receive Buffer
    pausedBySerialBackpressure,  \* Flow Control Flag
    stats,                       \* counters of the stats object
    \* ---- environment of the TCP -> serial path
    serialWritable,              \* serial.writable
    needDrain,                   \* a serial.write returned false, 'drain' is owed
    open,                        \* sockets whose handlers are attached and not closed
    sockPaused,                  \* sockets on which pause() is in effect
    serialOut,                   \* frames handed to serial.write, in order
    flowErr,                     \* redundant pause() / resume() calls observed
    \* ---- the byte stream of the stream scenarios
    input,                       \* bytes the peer has still to deliver
    consumed,                    \* bytes delivered so far
    shape,                       \* how the stream was built
    nChunks,                     \* data events so far: 0, 1, 2 for two or more
    \* ---- program state, command dispatch queue (bridge.js 158-182)
    cmdQueueDepth,               \* the diagnostic depth counter
    cmdQ,                        \* the links of the promise chain, in queueCmd order
    \* ---- environment of the command dispatch queue
    posts,                       \* POSTs issued to /command by the queue, in order
    \* ---- program state, command tokenizer (bridge.js 217)
    cmdBuf,                      \* Pending Command Accumulator
    \* ---- the byte stream arriving on the serial port
    serialIn,                    \* bytes the serial peer has still to send
    serialFed,                   \* bytes delivered to serial.on("data") so far
    seqs,                        \* the lifecycle sequences the trigger bytes set off
    \* ---- program state, lifecycle (bridge.js 38, 123, 195)
    serverStarted,
    initCmd,                     \* configured initialization command, <<>> for none
    channelCmds,                 \* configured channel commands, in channel order
    \* ---- environment of the lifecycle
    now,                         \* the clock, in ms
    listener,                    \* where server.listen and its callback stand
    tcpLog,                      \* calls to /tcp issued so far
    alive                        \* FALSE once the process has exited

tcpVars == <<currentSocket, tcpBuffer, pausedBySerialBackpressure, stats,
             serialWritable, needDrain, open, sockPaused, serialOut, flowErr>>
streamVars == <<input, consumed, shape, nChunks>>
qVars == <<cmdQueueDepth, cmdQ, posts>>
cmdVars == <<cmdBuf, serialIn, serialFed, seqs>>
lifeVars == <<serverStarted, initCmd, channelCmds, now, listener, tcpLog, alive>>
nonTcpVars == <<qVars, cmdVars, lifeVars>>
vars == <<tcpVars, streamVars, nonTcpVars>>

----------------------------------------------------------------------------
(* Program constants *)

FrameLen == 33
CmdBufMax == 256
TimerDelay == 1000
SyncByte == 160
StopNibble == 12
NoSocket == 0

(* Bounds of the model *)

MaxSegs == 2
MaxGarbage == 35
MaxSockets == 2
MaxData == 3
MaxCmds == 3
MaxCmdLen == 3
MaxChannels == 1
MaxTicks == 1
MaxChunk == 8

----------------------------------------------------------------------------
(* Buffer helpers *)

\* Buffer.indexOf(b): 0-based index of the first b, -1 when there is none
IndexOf(buf, b) ==
    LET S == {i \in 1..Len(buf) : buf[i] = b}
    IN  IF S = {} THEN -1 ELSE (CHOOSE i \in S : \A j \in S : i <= j) - 1

\* buf.slice(n)
Slice(buf, n) == SubSeq(buf, n + 1, Len(buf))

\* mutant of StopOk: compares the whole stop byte, not its high nibble
StopOkExact(stop) == stop = 192

\* (stop & 0xf0) === 0xc0
StopOk(stop) == stop \div 16 = StopNibble

\* mutant of ConcatChunk: forgets the bytes retained from earlier chunks
ConcatChunkDrop(buf, chunk) == chunk

\* tcpBuffer = tcpBuffer.length ? Buffer.concat([tcpBuffer, chunk]) : chunk
ConcatChunk(buf, chunk) == IF Len(buf) # 0 THEN buf \o chunk ELSE chunk

----------------------------------------------------------------------------
(* The state the data handler works on, as one record *)

TcpState ==
    [tcpBuffer |-> tcpBuffer, stats |-> stats,
     paused |-> pausedBySerialBackpressure, needDrain |-> needDrain,
     sockPaused |-> sockPaused, serialOut |-> serialOut, flowErr |-> flowErr]

\* currentSocket.pause(): redundant when the socket is already paused
SocketPause(st, s) ==
    [st EXCEPT !.sockPaused = @ \cup {s},
               !.flowErr = IF s \in st.sockPaused THEN @ \cup {"pause"} ELSE @]

\* currentSocket.resume(): redundant when the socket is not paused
SocketResume(st, s) ==
    [st EXCEPT !.sockPaused = @ \ {s},
               !.flowErr = IF s \notin st.sockPaused THEN @ \cup {"resume"} ELSE @]

\* mutant of WriteToSerial: writes without looking at serial.writable
WriteToSerialUnguarded(st, data, cur, writable, ok) ==
    LET st1 == [st EXCEPT !.serialOut = Append(@, data),
                          !.needDrain = @ \/ ~ok,
                          !.stats.serialBytes = @ + Len(data),
                          !.stats.serialFrames = @ + 1]
    IN  IF ~ok /\ cur # NoSocket /\ ~st1.paused
        THEN [SocketPause(st1, cur) EXCEPT
                 !.paused = TRUE,
                 !.stats.serialBackpressure = @ + 1]
        ELSE st1

\* writeToSerial(data); ok is what serial.write returns
WriteToSerial(st, data, cur, writable, ok) ==
    IF ~writable THEN st
    ELSE LET st1 == [st EXCEPT !.serialOut = Append(@, data),
                               !.needDrain = @ \/ ~ok,
                               !.stats.serialBytes = @ + Len(data),
                               !.stats.serialFrames = @ + 1]
         IN  IF ~ok /\ cur # NoSocket /\ ~st1.paused
             THEN [SocketPause(st1, cur) EXCEPT
                      !.paused = TRUE,
                      !.stats.serialBackpressure = @ + 1]
             ELSE st1

\* mutant of RejectFrame: drops the whole candidate, not one byte
RejectFrameWhole(st) ==
    [st EXCEPT !.stats.tcpFramesBad = @ + 1,
               !.tcpBuffer = Slice(@, FrameLen)]

\* the malformed-frame branch of the loop: count it, drop one byte
RejectFrame(st) ==
    [st EXCEPT !.stats.tcpFramesBad = @ + 1,
               !.tcpBuffer = Slice(@, 1)]

\* the valid-frame branch of the loop: count it, write it, drop 33 bytes
AcceptFrame(st, cur, writable, ok) ==
    LET frame == SubSeq(st.tcpBuffer, 1, FrameLen)
        st1 == [st EXCEPT !.stats.tcpFramesOk = @ + 1]
        st2 == WriteToSerial(st1, frame, cur, writable, ok)
    IN  [st2 EXCEPT !.tcpBuffer = Slice(@, FrameLen)]

\* mutant of SkipGarbage: counts the skip as a bad frame
SkipGarbageCounted(st) ==
    LET idx == IndexOf(st.tcpBuffer, SyncByte)
    IN  IF idx = -1
        THEN [st |-> [st EXCEPT !.tcpBuffer = <<>>, !.stats.tcpFramesBad = @ + 1],
              done |-> TRUE, wrote |-> FALSE]
        ELSE [st |-> [st EXCEPT !.tcpBuffer = Slice(@, idx),
                                !.stats.tcpFramesBad = @ + 1],
              done |-> FALSE, wrote |-> FALSE]

\* the branch of the loop taken when the head is not the sync byte:
\* drop the bytes before the next sync byte, or everything and return
SkipGarbage(st) ==
    LET idx == IndexOf(st.tcpBuffer, SyncByte)
    IN  IF idx = -1
        THEN [st |-> [st EXCEPT !.tcpBuffer = <<>>], done |-> TRUE, wrote |-> FALSE]
        ELSE [st |-> [st EXCEPT !.tcpBuffer = Slice(@, idx)],
              done |-> FALSE, wrote |-> FALSE]

\* One iteration of the while loop of processTcpBuffer, entered with
\* tcpBuffer.length >= 33.  done: the iteration executed `return`;
\* wrote: it called writeToSerial.
LoopBody(st, cur, writable, ok) ==
    LET buf == st.tcpBuffer IN
    IF buf[1] # SyncByte
    THEN SkipGarbage(st)
    ELSE IF Len(buf) < FrameLen
    THEN [st |-> st, done |-> TRUE, wrote |-> FALSE]
    ELSE IF ~StopOk(buf[FrameLen])
    THEN [st |-> RejectFrame(st), done |-> FALSE, wrote |-> FALSE]
    ELSE [st |-> AcceptFrame(st, cur, writable, ok), done |-> FALSE, wrote |-> TRUE]

\* processTcpBuffer().  sat = 0: every serial.write of this call returns
\* true; sat = k > 0: the k-th write and all later ones return false.
RECURSIVE ProcessTcpBuffer(_, _, _, _)
ProcessTcpBuffer(st, cur, writable, sat) ==
    IF Len(st.tcpBuffer) < FrameLen THEN st
    ELSE LET r == LoopBody(st, cur, writable, sat # 1)
             sat1 == IF r.wrote /\ sat > 1 THEN sat - 1 ELSE sat
         IN  IF r.done THEN r.st
             ELSE ProcessTcpBuffer(r.st, cur, writable, sat1)

\* socket.on("data"): append the chunk, run the reassembler
OnData(st, chunk, cur, writable, sat) ==
    ProcessTcpBuffer([st EXCEPT !.tcpBuffer = ConcatChunk(@, chunk)],
                     cur, writable, sat)

\* serial.on("drain")
OnDrain(st, cur) ==
    IF cur # NoSocket /\ st.paused
    THEN [SocketResume(st, cur) EXCEPT !.paused = FALSE]
    ELSE st

\* writes the state record back to the variables
Commit(st) ==
    /\ tcpBuffer' = st.tcpBuffer
    /\ stats' = st.stats
    /\ pausedBySerialBackpressure' = st.paused
    /\ needDrain' = st.needDrain
    /\ sockPaused' = st.sockPaused
    /\ serialOut' = st.serialOut
    /\ flowErr' = st.flowErr

----------------------------------------------------------------------------
(* Initial state of the TCP -> serial path *)

TcpInit ==
    /\ currentSocket = NoSocket
    /\ tcpBuffer = <<>>
    /\ pausedBySerialBackpressure = FALSE
    /\ stats = [tcpFramesOk |-> 0, tcpFramesBad |-> 0, serialBytes |-> 0,
                serialFrames |-> 0, serialBackpressure |-> 0]
    /\ needDrain = FALSE
    /\ open = {}
    /\ sockPaused = {}
    /\ serialOut = <<>>
    /\ flowErr = {}

----------------------------------------------------------------------------
(* Remote calls and the command dispatch queue *)

Max(a, b) == IF a >= b THEN a ELSE b

\* What a fetch can come to: a 2xx response, another response, or a
\* rejection (transport failure).  r.text() failing is caught in the code.
HttpResults == {"ok", "fail", "throw"}

\* sendShieldCommand(cmd) up to its first await: the JSON POST is issued.
\* phase: "json" / "text" while that POST is in flight, "settled" when the
\* call has returned or thrown.
SendStart(cmd) ==
    [cmd |-> cmd, phase |-> "json", jsonRes |-> "none", textRes |-> "none",
     threw |-> FALSE]

\* sendShieldCommand after `await httpJson`: r.ok returns r, a non-2xx
\* response goes on to the text/plain POST, a rejection propagates
SendAfterJson(call, res) ==
    IF res = "throw"
    THEN [call EXCEPT !.jsonRes = res, !.phase = "settled", !.threw = TRUE]
    ELSE IF res = "ok"
    THEN [call EXCEPT !.jsonRes = res, !.phase = "settled"]
    ELSE [call EXCEPT !.jsonRes = res, !.phase = "text"]

\* sendShieldCommand after the text/plain fetch: its response is returned
\* whatever its status, a rejection propagates
SendAfterText(call, res) ==
    [call EXCEPT !.textRes = res, !.phase = "settled", !.threw = (res = "throw")]

\* the POSTs a call has issued once it is in phase ph
PostOf(cmd, enc, owner) == [cmd |-> cmd, enc |-> enc, owner |-> owner]

\* mutant of DepthAfterDispatch: the decrement sits in .then, not .finally
DepthAfterDispatchThenOnly(depth, threw) ==
    IF threw THEN depth ELSE Max(0, depth - 1)

\* .finally of queueCmd: cmdQueueDepth = Math.max(0, cmdQueueDepth - 1)
DepthAfterDispatch(depth, threw) == Max(0, depth - 1)

\* mutant of LinkReady: the dispatch is not chained on the previous link
LinkReadyUnchained(q, i) == TRUE

\* the .then callback of link i runs once the promise it was chained on
\* has resolved: at once for the first link (Promise.resolve()), after
\* the .finally of link i - 1 for the others
LinkReady(q, i) == IF i = 1 THEN TRUE ELSE q[i - 1].phase = "done"

\* no stream scenario is running
NoStream ==
    /\ input = <<>>
    /\ consumed = <<>>
    /\ shape = [kind |-> "none", segs |-> <<>>, n |-> 0]
    /\ nChunks = 0

QInit ==
    /\ cmdQueueDepth = 0
    /\ cmdQ = <<>>
    /\ posts = <<>>


\* tokens "x" and "y"
Tokens == {<<120>>, <<121>>}

\* queueCmd(cmd) on the record st: count the token, chain a link on cmdQ
Enqueue(st, cmd) ==
    [st EXCEPT !.cmdQueueDepth = @ + 1,
               !.cmdQ = Append(@, [SendStart(cmd) EXCEPT !.phase = "queued"])]

\* queueCmd(cmd)
QueueCmd(cmd) ==
    /\ Len(cmdQ) < MaxCmds
    /\ LET st == Enqueue([cmdQueueDepth |-> cmdQueueDepth, cmdQ |-> cmdQ], cmd)
       IN  cmdQueueDepth' = st.cmdQueueDepth /\ cmdQ' = st.cmdQ
    /\ UNCHANGED <<posts, tcpVars, streamVars, cmdVars, lifeVars>>

\* the .then callback of link i starts: sendShieldCommand issues the JSON POST
QueueRun(i) ==
    /\ i \in 1..Len(cmdQ)
    /\ cmdQ[i].phase = "queued"
    /\ LinkReady(cmdQ, i)
    /\ cmdQ' = [cmdQ EXCEPT ![i] = SendStart(cmdQ[i].cmd)]
    /\ posts' = Append(posts, PostOf(cmdQ[i].cmd, "json", i))
    /\ UNCHANGED <<cmdQueueDepth, tcpVars, streamVars, cmdVars, lifeVars>>

\* the JSON POST of link i comes back
QueueJsonDone(i, res) ==
    /\ i \in 1..Len(cmdQ)
    /\ cmdQ[i].phase = "json"
    /\ LET call == SendAfterJson(cmdQ[i], res)
       IN  /\ cmdQ' = [cmdQ EXCEPT ![i] = call]
           /\ posts' = IF call.phase = "text"
                        THEN Append(posts, PostOf(call.cmd, "text", i))
                        ELSE posts
    /\ UNCHANGED <<cmdQueueDepth, tcpVars, streamVars, cmdVars, lifeVars>>

\* the text/plain POST of link i comes back
QueueTextDone(i, res) ==
    /\ i \in 1..Len(cmdQ)
    /\ cmdQ[i].phase = "text"
    /\ cmdQ' = [cmdQ EXCEPT ![i] = SendAfterText(cmdQ[i], res)]
    /\ UNCHANGED <<cmdQueueDepth, posts, tcpVars, streamVars, cmdVars, lifeVars>>

\* .catch (logs when the dispatch threw) and .finally of link i
QueueFinally(i) ==
    /\ i \in 1..Len(cmdQ)
    /\ cmdQ[i].phase = "settled"
    /\ cmdQueueDepth' = DepthAfterDispatch(cmdQueueDepth, cmdQ[i].threw)
    /\ cmdQ' = [cmdQ EXCEPT ![i].phase = "done"]
    /\ UNCHANGED <<posts, tcpVars, streamVars, cmdVars, lifeVars>>

----------------------------------------------------------------------------
(* Command tokenizer and the serial data handler *)

\* String.fromCharCode(byte) for the characters the code names
ChNul == 0
ChLF == 10
ChCR == 13
ChX == 88
ChZ == 90
ChB == 98
ChS == 115

\* singleCharCmd: b s v ? ~ 0-9 ! @ # $ % ^ & * ( ) < > , .
SingleCharCmd ==
    {98, 115, 118, 63, 126} \cup (48..57)
        \cup {33, 64, 35, 36, 37, 94, 38, 42, 40, 41, 60, 62, 44, 46}

\* the characters String.prototype.trim strips, among U+0000..U+00FF:
\* TAB LF VT FF CR SP NBSP
WhiteSpace == {9, 10, 11, 12, 13, 32, 160}

\* String.prototype.trim
RECURSIVE TrimLeft(_)
TrimLeft(str) ==
    IF str # <<>> /\ Head(str) \in WhiteSpace THEN TrimLeft(Tail(str)) ELSE str
RECURSIVE TrimRight(_)
TrimRight(str) ==
    IF str # <<>> /\ str[Len(str)] \in WhiteSpace
    THEN TrimRight(SubSeq(str, 1, Len(str) - 1)) ELSE str
Trim(str) == TrimRight(TrimLeft(str))

\* const cmd = cmdBuf.trim(); cmdBuf = ""; if (cmd) queueCmd(cmd);
FlushTrimmed(st) ==
    LET cmd == Trim(st.cmdBuf)
        st1 == [st EXCEPT !.cmdBuf = <<>>]
    IN  IF cmd # <<>> THEN Enqueue(st1, cmd) ELSE st1

\* mutant of IsSingleChar: a single-character command is recognised
\* anywhere in the accumulator, not only as its sole character
IsSingleCharAnywhere(buf) == buf[Len(buf)] \in SingleCharCmd

\* cmdBuf.length === 1 && singleCharCmd.has(cmdBuf)
IsSingleChar(buf) == Len(buf) = 1 /\ buf[1] \in SingleCharCmd

\* mutant of Overflows: the ceiling is never enforced
OverflowsNever(buf) == FALSE

\* cmdBuf.length > 256
Overflows(buf) == Len(buf) > CmdBufMax

\* mutant of FeedByte: a null byte is appended like any other byte
FeedByteKeepNul(st, byte) ==
    LET st1 == [st EXCEPT !.cmdBuf = Append(@, byte)] IN
    IF byte = ChLF \/ byte = ChCR THEN FlushTrimmed(st1)
    ELSE IF IsSingleChar(st1.cmdBuf)
    THEN Enqueue([st1 EXCEPT !.cmdBuf = <<>>], st1.cmdBuf)
    ELSE IF byte = ChX \/ byte = ChZ THEN FlushTrimmed(st1)
    ELSE IF Overflows(st1.cmdBuf) THEN [st1 EXCEPT !.cmdBuf = <<>>]
    ELSE st1

\* the body of the for loop of feedCmdBytes, for one byte
FeedByte(st, byte) ==
    IF byte = ChNul THEN st
    ELSE LET st1 == [st EXCEPT !.cmdBuf = Append(@, byte)] IN
         IF byte = ChLF \/ byte = ChCR THEN FlushTrimmed(st1)
         ELSE IF IsSingleChar(st1.cmdBuf)
         THEN Enqueue([st1 EXCEPT !.cmdBuf = <<>>], st1.cmdBuf)
         ELSE IF byte = ChX \/ byte = ChZ THEN FlushTrimmed(st1)
         ELSE IF Overflows(st1.cmdBuf) THEN [st1 EXCEPT !.cmdBuf = <<>>]
         ELSE st1

\* feedCmdBytes(buf): the loop body for each byte of buf in order.  The
\* loop is unfolded as the first half of buf, then the second half from
\* the state mid the first half has left.
RECURSIVE FeedCmdBytes(_, _)
FeedCmdBytes(st, buf) ==
    IF buf = <<>> THEN st
    ELSE IF Len(buf) = 1 THEN FeedByte(st, buf[1])
    ELSE LET h == Len(buf) \div 2
         IN  CHOOSE r \in {FeedCmdBytes(mid, SubSeq(buf, h + 1, Len(buf))) :
                              mid \in {FeedCmdBytes(st, SubSeq(buf, 1, h))}} : TRUE

\* no sendShieldCommand call in progress
NoCall ==
    [cmd |-> <<>>, phase |-> "none", jsonRes |-> "none", textRes |-> "none",
     threw |-> FALSE]

\* setTimeout(..., 1000) of a trigger byte at time t.  pc: "timer" until the
\* timer fires; log: the remote calls the sequence has issued, a command
\* with its fallback POST counting as one; began: when
\* startStream was entered, startAt: when /stream/start was requested.
NewSeq(kind, t) ==
    [kind |-> kind, pc |-> "timer", due |-> t + TimerDelay, call |-> NoCall,
     k |-> 0, began |-> -1, startAt |-> -1, log |-> <<>>]

\* mutant of ScanTriggers: an 's' byte cancels the start sequences that
\* have not yet requested /stream/start
RECURSIVE ScanTriggersCancel(_, _, _)
ScanTriggersCancel(sqs, buf, t) ==
    IF buf = <<>> THEN sqs
    ELSE LET byte == Head(buf)
             s1 == IF byte = ChB THEN Append(sqs, NewSeq("start", t)) ELSE sqs
             cut == [j \in 1..Len(s1) |->
                        IF s1[j].kind = "start" /\ s1[j].startAt < 0
                        THEN [s1[j] EXCEPT !.pc = "aborted"] ELSE s1[j]]
             s2 == IF byte = ChS THEN Append(cut, NewSeq("stop", t)) ELSE s1
         IN  ScanTriggersCancel(s2, Tail(buf), t)

\* mutant of ScanTriggers: only the first byte of a chunk is looked at
ScanTriggersFirst(sqs, buf, t) ==
    IF buf = <<>> THEN sqs
    ELSE IF Head(buf) = ChB THEN Append(sqs, NewSeq("start", t))
    ELSE IF Head(buf) = ChS THEN Append(sqs, NewSeq("stop", t))
    ELSE sqs

\* the trigger scan of serial.on("data"): one 1000 ms timer per 'b' byte
\* (start sequence) and per 's' byte (stop sequence), in byte order
RECURSIVE ScanTriggers(_, _, _)
ScanTriggers(sqs, buf, t) ==
    IF buf = <<>> THEN sqs
    ELSE IF Len(buf) = 1
    THEN LET byte == buf[1]
             s1 == IF byte = ChB THEN Append(sqs, NewSeq("start", t)) ELSE sqs
             s2 == IF byte = ChS THEN Append(s1, NewSeq("stop", t)) ELSE s1
         IN  s2
    ELSE LET h == Len(buf) \div 2
         IN  CHOOSE r \in {ScanTriggers(mid, SubSeq(buf, h + 1, Len(buf)), t) :
                              mid \in {ScanTriggers(sqs, SubSeq(buf, 1, h), t)}} : TRUE

CmdInit ==
    /\ cmdBuf = <<>>
    /\ serialIn = <<>>
    /\ serialFed = <<>>
    /\ seqs = <<>>

\* a bridge configured without initialization and channel commands,
\* before any trigger
LifeInit ==
    /\ serverStarted = FALSE
    /\ initCmd = <<>>
    /\ channelCmds = <<>>
    /\ now = 0
    /\ listener = "off"
    /\ tcpLog = <<>>
    /\ alive = TRUE

NonTcpInit == QInit /\ CmdInit /\ LifeInit

\* texts the serial peer may send
Start34X == <<115, 116, 97, 114, 116, 51, 52, 88>>
Tart34X == <<116, 97, 114, 116, 51, 52, 88>>
CmdTexts ==
    {Start34X, Tart34X, <<97, 98, 49, 50, 88>>, <<120, 49, 32, 90>>,
     <<0, 88, 0, 89, 0>>, <<32, 104, 105, 32, 10>>}
CmdAlphabet == {ChNul, ChLF, 32, ChX, 97, ChB, ChS}

\* texts longer than the accumulator's ceiling: a's without a terminator,
\* and a's with an X at the ceiling and one byte past it
LongTexts ==
    {[i \in 1..(CmdBufMax + 2) |-> 97],
     [i \in 1..(CmdBufMax + 1) |-> IF i = CmdBufMax + 1 THEN ChX ELSE 97],
     [i \in 1..(CmdBufMax + 2) |-> IF i = CmdBufMax + 2 THEN ChX ELSE 97]}
CmdStrings == UNION {[1..n -> CmdAlphabet] : n \in 0..MaxCmdLen}

\* the sizes of the chunk the serial port may deliver when len bytes are
\* outstanding: up to MaxChunk bytes, or all of them
ChunkLens(len) == {n \in 1..len : n <= MaxChunk \/ n = len}

\* serial.on("data") with the next n bytes of the serial stream:
\* feedCmdBytes, then the trigger scan
SerialData(n) ==
    /\ alive
    /\ n \in 1..Len(serialIn)
    /\ LET buf == SubSeq(serialIn, 1, n)
           st == FeedCmdBytes([cmdBuf |-> cmdBuf, cmdQ |-> cmdQ,
                               cmdQueueDepth |-> cmdQueueDepth], buf)
       IN  /\ cmdBuf' = st.cmdBuf
           /\ cmdQ' = st.cmdQ
           /\ cmdQueueDepth' = st.cmdQueueDepth
           /\ seqs' = ScanTriggers(seqs, buf, now)
           /\ serialFed' = serialFed \o buf
           /\ serialIn' = Slice(serialIn, n)
    /\ UNCHANGED <<posts, tcpVars, streamVars, lifeVars>>

InitCmd ==
    /\ TcpInit /\ serialWritable = TRUE /\ NoStream /\ QInit
    /\ cmdBuf = <<>>
    /\ serialIn \in CmdTexts \cup CmdStrings \cup LongTexts
    /\ serialFed = <<>>
    /\ seqs = <<>>
    /\ LifeInit
NextCmd == \E n \in ChunkLens(Len(serialIn)) : SerialData(n)
SpecCmd == InitCmd /\ [][NextCmd]_vars

InitQueue ==
    TcpInit /\ serialWritable = TRUE /\ NoStream /\ QInit /\ CmdInit /\ LifeInit
NextQueue ==
    \/ \E cmd \in Tokens : QueueCmd(cmd)
    \/ \E i \in 1..MaxCmds : QueueRun(i)
    \/ \E i \in 1..MaxCmds, res \in HttpResults : QueueJsonDone(i, res)
    \/ \E i \in 1..MaxCmds, res \in HttpResults : QueueTextDone(i, res)
    \/ \E i \in 1..MaxCmds : QueueFinally(i)
SpecQueue == InitQueue /\ [][NextQueue]_vars

----------------------------------------------------------------------------
(* Lifecycle: what the timers of the trigger bytes run *)

\* startStream: `return new Promise(... setTimeout(..., 1000))`
Settle(sq) ==
    [sq EXCEPT !.pc = "settle", !.due = now + TimerDelay, !.call = NoCall]

\* startStream: sendShieldCommand(cmd) for the k-th channel command
StartChan(sq, k) ==
    [sq EXCEPT !.pc = "chan", !.k = k, !.call = SendStart(channelCmds[k]),
               !.log = Append(@, "chan")]

\* startStream after the init step: `if (channelCmds.length)`
AfterInit(sq) ==
    IF Len(channelCmds) # 0 THEN StartChan(sq, 1) ELSE Settle(sq)

\* startStream after `await stopStream()`: `if (initCmd)`
AfterStop(sq) ==
    IF initCmd # <<>>
    THEN [sq EXCEPT !.pc = "init", !.call = SendStart(initCmd),
                    !.log = Append(@, "init")]
    ELSE AfterInit(sq)

\* startStream after a sendShieldCommand has returned
AfterCall(sq) ==
    IF sq.pc = "init" THEN AfterInit(sq)
    ELSE IF sq.k < Len(channelCmds) THEN StartChan(sq, sq.k + 1)
    ELSE Settle(sq)

\* startStream when an awaited call has thrown: the promise rejects and
\* `.catch(() => {})` swallows it; nothing more of the sequence runs
Abort(sq) == [sq EXCEPT !.pc = "aborted"]

\* timers of one duration fire in the order of their due times
TimerFirst(i) ==
    \A j \in 1..Len(seqs) :
        seqs[j].pc \in {"timer", "settle"} => seqs[j].due >= seqs[i].due

\* a timer of sequence sq is set and not yet due
Waiting(sq) == sq.pc \in {"timer", "settle"} /\ sq.due > now

\* time passes: MaxTicks ticks by itself, and on as long as a timer waits
Tick ==
    /\ alive
    /\ \/ now < MaxTicks * TimerDelay
       \/ \E i \in 1..Len(seqs) : Waiting(seqs[i])
    /\ now' = now + TimerDelay
    /\ UNCHANGED <<tcpVars, streamVars, qVars, cmdVars, serverStarted, initCmd,
                   channelCmds, listener, tcpLog, alive>>

\* mutant of StartServerRuns: startServer does not look at serverStarted
StartServerRunsAlways(started) == TRUE

\* startServer(): `if (serverStarted) return;`
StartServerRuns(started) == ~started

\* the 1000 ms timer of a trigger byte fires.  'b': startServer(), then
\* startStream() up to its first await (stopStream has requested
\* /stream/stop); 's': stopStream() has requested /stream/stop.
TimerFire(i) ==
    /\ alive
    /\ i \in 1..Len(seqs)
    /\ seqs[i].pc = "timer"
    /\ now >= seqs[i].due
    /\ TimerFirst(i)
    /\ seqs' = [seqs EXCEPT ![i] = [@ EXCEPT !.pc = "stop", !.began = now,
                                              !.log = <<"stop">>]]
    /\ IF seqs[i].kind = "start" /\ StartServerRuns(serverStarted)
       THEN serverStarted' = TRUE /\ listener' = "binding"
       ELSE UNCHANGED <<serverStarted, listener>>
    /\ UNCHANGED <<tcpVars, streamVars, qVars, cmdBuf, serialIn, serialFed,
                   initCmd, channelCmds, now, tcpLog, alive>>

\* the /stream/stop request comes back
StopDone(i, res) ==
    /\ alive
    /\ i \in 1..Len(seqs)
    /\ seqs[i].pc = "stop"
    /\ seqs' = [seqs EXCEPT ![i] =
                    IF @.kind = "stop" THEN [@ EXCEPT !.pc = "done"]
                    ELSE IF res = "throw" THEN Abort(@)
                    ELSE AfterStop(@)]
    /\ UNCHANGED <<tcpVars, streamVars, qVars, cmdBuf, serialIn, serialFed,
                   lifeVars>>

\* the JSON POST of the init or channel command of sequence i comes back
CallJsonDone(i, res) ==
    /\ alive
    /\ i \in 1..Len(seqs)
    /\ seqs[i].pc \in {"init", "chan"}
    /\ seqs[i].call.phase = "json"
    /\ LET call == SendAfterJson(seqs[i].call, res)
           sq == [seqs[i] EXCEPT !.call = call]
       IN  seqs' = [seqs EXCEPT ![i] =
                       IF call.phase = "text" THEN sq
                       ELSE IF call.threw THEN Abort(sq)
                       ELSE AfterCall(sq)]
    /\ UNCHANGED <<tcpVars, streamVars, qVars, cmdBuf, serialIn, serialFed,
                   lifeVars>>

\* the text/plain POST of the init or channel command of sequence i comes back
CallTextDone(i, res) ==
    /\ alive
    /\ i \in 1..Len(seqs)
    /\ seqs[i].pc \in {"init", "chan"}
    /\ seqs[i].call.phase = "text"
    /\ LET call == SendAfterText(seqs[i].call, res)
           sq == [seqs[i] EXCEPT !.call = call]
       IN  seqs' = [seqs EXCEPT ![i] =
                       IF call.threw THEN Abort(sq) ELSE AfterCall(sq)]
    /\ UNCHANGED <<tcpVars, streamVars, qVars, cmdBuf, serialIn, serialFed,
                   lifeVars>>

\* the 1000 ms timer at the end of startStream fires: /stream/start is requested
SettleFire(i) ==
    /\ alive
    /\ i \in 1..Len(seqs)
    /\ seqs[i].pc = "settle"
    /\ now >= seqs[i].due
    /\ TimerFirst(i)
    /\ seqs' = [seqs EXCEPT ![i] = [@ EXCEPT !.pc = "start", !.startAt = now,
                                              !.log = Append(@, "start")]]
    /\ UNCHANGED <<tcpVars, streamVars, qVars, cmdBuf, serialIn, serialFed,
                   lifeVars>>

\* the /stream/start request comes back; a rejection inside the async timer
\* callback is an unhandled rejection, which ends the process
StartDone(i, res) ==
    /\ alive
    /\ i \in 1..Len(seqs)
    /\ seqs[i].pc = "start"
    /\ seqs' = [seqs EXCEPT ![i] = [@ EXCEPT !.pc = "done"]]
    /\ alive' = (res # "throw")
    /\ UNCHANGED <<tcpVars, streamVars, qVars, cmdBuf, serialIn, serialFed,
                   serverStarted, initCmd, channelCmds, now, listener, tcpLog>>

\* server.listen comes to an end: its callback runs configureShieldTcp up to
\* the first /tcp POST, or server.on("error") exits the process
ListenDone(res) ==
    /\ alive
    /\ listener = "binding"
    /\ IF res = "ok"
       THEN listener' = "tcp" /\ tcpLog' = Append(tcpLog, "tcp") /\ alive' = alive
       ELSE listener' = "failed" /\ tcpLog' = tcpLog /\ alive' = FALSE
    /\ UNCHANGED <<tcpVars, streamVars, qVars, cmdVars, serverStarted, initCmd,
                   channelCmds, now>>

\* configureShieldTcp: the first /tcp POST comes back; a non-2xx response is
\* retried without "output", a rejection is unhandled and ends the process
TcpDone(res) ==
    /\ alive
    /\ listener = "tcp"
    /\ listener' = IF res = "fail" THEN "tcp_retry" ELSE "configured"
    /\ tcpLog' = IF res = "fail" THEN Append(tcpLog, "tcp_retry") ELSE tcpLog
    /\ alive' = (res # "throw")
    /\ UNCHANGED <<tcpVars, streamVars, qVars, cmdVars, serverStarted, initCmd,
                   channelCmds, now>>

\* configureShieldTcp: the retried /tcp POST comes back
TcpRetryDone(res) ==
    /\ alive
    /\ listener = "tcp_retry"
    /\ listener' = "configured"
    /\ alive' = (res # "throw")
    /\ UNCHANGED <<tcpVars, streamVars, qVars, cmdVars, serverStarted, initCmd,
                   channelCmds, now, tcpLog>>

\* configurations and trigger streams of the lifecycle scenarios
InitText == <<47, 48>>
ChanText(k) == <<120, 48 + k>>
TriggerStrings ==
    {<<ChB>>, <<ChS>>, <<ChB, ChB>>, <<ChB, ChS>>, <<ChS, ChB>>, <<ChS, ChS>>}

InitLife ==
    /\ TcpInit /\ serialWritable = TRUE /\ NoStream /\ QInit
    /\ cmdBuf = <<>>
    /\ serialIn \in TriggerStrings
    /\ serialFed = <<>>
    /\ seqs = <<>>
    /\ serverStarted = FALSE
    /\ initCmd \in {<<>>, InitText}
    /\ channelCmds \in {[k \in 1..n |-> ChanText(k)] : n \in 0..MaxChannels}
    /\ now = 0
    /\ listener = "off"
    /\ tcpLog = <<>>
    /\ alive = TRUE
NextLife ==
    \/ \E n \in ChunkLens(Len(serialIn)) : SerialData(n)
    \/ Tick
    \/ \E i \in 1..Len(seqs) : TimerFire(i)
    \/ \E i \in 1..Len(seqs), res \in HttpResults : StopDone(i, res)
    \/ \E i \in 1..Len(seqs), res \in HttpResults : CallJsonDone(i, res)
    \/ \E i \in 1..Len(seqs), res \in HttpResults : CallTextDone(i, res)
    \/ \E i \in 1..Len(seqs) : SettleFire(i)
    \/ \E i \in 1..Len(seqs), res \in HttpResults : StartDone(i, res)
    \/ \E res \in {"ok", "error"} : ListenDone(res)
    \/ \E res \in HttpResults : TcpDone(res)
    \/ \E res \in HttpResults : TcpRetryDone(res)
SpecLife == InitLife /\ [][NextLife]_vars

----------------------------------------------------------------------------
(* Stream scenarios: one peer delivers a byte stream in arbitrary chunks *)

Rep(n, b) == [i \in 1..n |-> b]

GoodFrameA == <<SyncByte>> \o Rep(31, 1) \o <<192>>
GoodFrameB == <<SyncByte>> \o Rep(31, SyncByte) \o <<197>>
BadFrame == <<SyncByte, SyncByte>> \o Rep(30, 192) \o <<16>>
Segment(k) ==
    CASE k = "goodA" -> GoodFrameA
      [] k = "goodB" -> GoodFrameB
      [] k = "bad" -> BadFrame
      [] k = "junk" -> <<7>>
      [] k = "sync" -> <<SyncByte>>

SegKinds == {"goodA", "goodB", "bad", "junk", "sync"}
GoodKinds == {"goodA", "goodB"}

RECURSIVE Flatten(_)
Flatten(ks) == IF ks = <<>> THEN <<>> ELSE Segment(Head(ks)) \o Flatten(Tail(ks))

SegLists == UNION {[1..n -> SegKinds] : n \in 0..MaxSegs}

\* n bytes none of which is the sync byte
Garbage(n) == [i \in 1..n |-> IF i % 3 = 0 THEN 192 ELSE i % 7]

StreamInit ==
    /\ \/ \E ks \in SegLists :
             /\ shape = [kind |-> "segs", segs |-> ks, n |-> 0]
             /\ input = Flatten(ks)
       \/ \E n \in 0..MaxGarbage, g \in GoodKinds :
             /\ shape = [kind |-> "garbage", segs |-> <<g>>, n |-> n]
             /\ input = Garbage(n) \o Segment(g)
    /\ consumed = <<>>
    /\ nChunks = 0
    /\ serialWritable = TRUE

\* net.createServer connection handler: the one peer of the scenario connects
StreamAccept ==
    /\ open = {}
    /\ currentSocket = NoSocket
    /\ currentSocket' = 1
    /\ open' = {1}
    /\ UNCHANGED <<tcpBuffer, pausedBySerialBackpressure, stats, serialWritable,
                   needDrain, sockPaused, serialOut, flowErr, streamVars, nonTcpVars>>

\* socket.on("data") with the next n bytes of the stream
StreamData ==
    /\ 1 \in open
    /\ 1 \notin sockPaused
    /\ \E n \in 1..Len(input), sat \in 0..1 :
          /\ Commit(OnData(TcpState, SubSeq(input, 1, n), currentSocket,
                           serialWritable, sat))
          /\ input' = Slice(input, n)
          /\ consumed' = consumed \o SubSeq(input, 1, n)
    /\ nChunks' = IF nChunks < 2 THEN nChunks + 1 ELSE nChunks
    /\ UNCHANGED <<currentSocket, serialWritable, open, shape, nonTcpVars>>

\* serial.on("drain")
SerialDrain ==
    /\ needDrain
    /\ Commit([OnDrain(TcpState, currentSocket) EXCEPT !.needDrain = FALSE])
    /\ UNCHANGED <<currentSocket, serialWritable, open, streamVars, nonTcpVars>>

InitStream == TcpInit /\ StreamInit /\ NonTcpInit
NextStream == StreamAccept \/ StreamData \/ SerialDrain
SpecStream == InitStream /\ [][NextStream]_vars

----------------------------------------------------------------------------
(* The reassembly loop, one iteration at a time: the handler has appended *)
(* a chunk and is inside processTcpBuffer, which runs to completion.      *)

InitLoop ==
    /\ tcpBuffer \in {Flatten(ks) : ks \in SegLists}
                     \cup {Garbage(n) \o GoodFrameA : n \in 0..MaxGarbage}
    /\ currentSocket \in {NoSocket, 1}
    /\ open = IF currentSocket = NoSocket THEN {} ELSE {currentSocket}
    /\ serialWritable \in BOOLEAN
    /\ pausedBySerialBackpressure = FALSE
    /\ stats = [tcpFramesOk |-> 0, tcpFramesBad |-> 0, serialBytes |-> 0,
                serialFrames |-> 0, serialBackpressure |-> 0]
    /\ needDrain = FALSE
    /\ sockPaused = {}
    /\ serialOut = <<>>
    /\ flowErr = {}
    /\ NoStream
    /\ NonTcpInit

\* one pass through the body of `while (tcpBuffer.length >= 33)`
LoopIter ==
    /\ Len(tcpBuffer) >= FrameLen
    /\ \E ok \in BOOLEAN :
          Commit(LoopBody(TcpState, currentSocket, serialWritable, ok).st)
    /\ UNCHANGED <<currentSocket, serialWritable, open, streamVars, nonTcpVars>>

NextLoop == LoopIter
SpecLoop == InitLoop /\ [][NextLoop]_vars

----------------------------------------------------------------------------
(* The TCP -> serial path with several peers connecting and closing *)

Sockets == 1..MaxSockets

TcpChunks ==
    {GoodFrameA, SubSeq(GoodFrameA, 1, 10), SubSeq(GoodFrameA, 11, FrameLen),
     BadFrame, GoodFrameB \o GoodFrameA}

InitTcp == TcpInit /\ serialWritable = TRUE /\ NoStream /\ NonTcpInit

\* net.createServer connection handler: a new socket replaces the tracked one
Accept(s) ==
    /\ s \notin open
    /\ currentSocket' = s
    /\ open' = open \cup {s}
    /\ UNCHANGED <<tcpBuffer, pausedBySerialBackpressure, stats, serialWritable,
                   needDrain, sockPaused, serialOut, flowErr, streamVars, nonTcpVars>>

\* socket.on("data") of socket s; a paused socket emits no data
SocketData(s, chunk, sat) ==
    /\ s \in open
    /\ s \notin sockPaused
    /\ nChunks < MaxData
    /\ Commit(OnData(TcpState, chunk, currentSocket, serialWritable, sat))
    /\ nChunks' = nChunks + 1
    /\ UNCHANGED <<currentSocket, serialWritable, open, input, consumed, shape,
                   nonTcpVars>>

\* socket.on("close") of socket s; the socket object is gone afterwards
SocketClose(s) ==
    /\ s \in open
    /\ currentSocket' = IF currentSocket = s THEN NoSocket ELSE currentSocket
    /\ tcpBuffer' = <<>>
    /\ open' = open \ {s}
    /\ sockPaused' = sockPaused \ {s}
    /\ UNCHANGED <<pausedBySerialBackpressure, stats, serialWritable, needDrain,
                   serialOut, flowErr, streamVars, nonTcpVars>>

\* the serial port stops being writable (it is opened once, before the
\* server can start, and never reopened)
SerialClose ==
    /\ serialWritable
    /\ serialWritable' = FALSE
    /\ UNCHANGED <<currentSocket, tcpBuffer, pausedBySerialBackpressure, stats,
                   needDrain, open, sockPaused, serialOut, flowErr, streamVars, nonTcpVars>>

NextTcp ==
    \/ \E s \in Sockets : Accept(s)
    \/ \E s \in Sockets, chunk \in TcpChunks, sat \in 0..2 : SocketData(s, chunk, sat)
    \/ \E s \in Sockets : SocketClose(s)
    \/ SerialDrain
    \/ SerialClose
SpecTcp == InitTcp /\ [][NextTcp]_vars

----------------------------------------------------------------------------
(* The lifecycle when timers fire and every remote call returns a         *)
(* response, with a peer connecting and closing meanwhile.  Node runs a   *)
(* timer callback once its delay has passed and an await continuation     *)
(* once its response has arrived, hence the weak fairness on these steps. *)

\* a fetch that returns a response, 2xx or not
Responses == {"ok", "fail"}

LifeStep ==
    \/ Tick
    \/ \E i \in 1..Len(seqs) : TimerFire(i)
    \/ \E i \in 1..Len(seqs), res \in Responses : StopDone(i, res)
    \/ \E i \in 1..Len(seqs), res \in Responses : CallJsonDone(i, res)
    \/ \E i \in 1..Len(seqs), res \in Responses : CallTextDone(i, res)
    \/ \E i \in 1..Len(seqs) : SettleFire(i)
    \/ \E i \in 1..Len(seqs), res \in Responses : StartDone(i, res)
    \/ \E res \in {"ok", "error"} : ListenDone(res)
    \/ \E res \in Responses : TcpDone(res)
    \/ \E res \in Responses : TcpRetryDone(res)

InitLive == InitLife
NextLive ==
    \/ \E n \in ChunkLens(Len(serialIn)) : SerialData(n)
    \/ LifeStep
    \/ StreamAccept
    \/ \E s \in open : SocketClose(s)
SpecLive == InitLive /\ [][NextLive]_vars /\ WF_vars(LifeStep)

----------------------------------------------------------------------------
(* Claims about the Frame Reassembler, checked under SpecStream *)

\* the reassembler state of a fresh process
FreshTcpState ==
    [tcpBuffer |-> <<>>,
     stats |-> [tcpFramesOk |-> 0, tcpFramesBad |-> 0, serialBytes |-> 0,
                serialFrames |-> 0, serialBackpressure |-> 0],
     paused |-> FALSE, needDrain |-> FALSE, sockPaused |-> {},
     serialOut |-> <<>>, flowErr |-> {}]

\* what ingesting all of bytes as a single chunk gives
OneChunk(bytes) == OnData(FreshTcpState, bytes, 1, TRUE, 0)

\* C1: chunk-boundary independence.  Whatever the chunk boundaries were
\* (two chunks in particular), the frames written so far and the good-frame
\* and bad-frame counters are those of ingesting the same bytes as one chunk.
C1_ChunkIndependence ==
    nChunks >= 1 =>
        LET one == OneChunk(consumed)
        IN  /\ serialOut = one.serialOut
            /\ stats.tcpFramesOk = one.stats.tcpFramesOk
            /\ stats.tcpFramesBad = one.stats.tcpFramesBad

\* C1 witness: a single frame preceded by a lone sync byte and a bad
\* candidate arrived in at least two chunks, and was emitted.
C1_Witness ==
    /\ shape.kind = "segs"
    /\ shape.segs = <<"sync", "goodA">>
    /\ nChunks = 2
    /\ input = <<>>
    /\ serialOut = <<GoodFrameA>>
    /\ stats.tcpFramesBad = 1

AllGood == shape.kind = "segs" /\ \A i \in 1..Len(shape.segs) : shape.segs[i] \in GoodKinds

\* C2: a back-to-back concatenation of valid frames, in any chunking, is
\* written to the serial sink frame by frame, in arrival order and unchanged;
\* the good-frame counter counts them and the bad-frame counter stays 0.
C2_ValidFramesForwarded ==
    AllGood =>
        LET k == Len(consumed) \div FrameLen
        IN  /\ serialOut = [i \in 1..k |-> Segment(shape.segs[i])]
            /\ stats.tcpFramesOk = k
            /\ stats.tcpFramesBad = 0
            /\ (input = <<>> => k = Len(shape.segs))

\* C2 witness: two different valid frames, delivered in at least two chunks,
\* have both been written, in order.
C2_Witness ==
    /\ AllGood
    /\ shape.segs = <<"goodB", "goodA">>
    /\ nChunks = 2
    /\ input = <<>>
    /\ serialOut = <<GoodFrameB, GoodFrameA>>

\* C3: N non-sync bytes followed by one valid frame, in any chunking from an
\* empty Receive Buffer: the bad-frame counter never moves, nothing but that
\* frame is ever emitted, and it has been emitted once the stream is in.
C3_GarbageSkipNotBad ==
    shape.kind = "garbage" =>
        /\ stats.tcpFramesBad = 0
        /\ serialOut \in {<<>>, <<Segment(shape.segs[1])>>}
        /\ stats.tcpFramesOk = Len(serialOut)
        /\ (input = <<>> => Len(serialOut) = 1)

\* C3 witness: more than a frame's length of garbage was skipped in several
\* chunks and the frame behind it was emitted.
C3_Witness ==
    /\ shape.kind = "garbage"
    /\ shape.n > FrameLen
    /\ nChunks = 2
    /\ input = <<>>
    /\ Len(serialOut) = 1

\* C4: single-byte resynchronisation.  An iteration entered with at least
\* 33 bytes buffered, a sync byte at the head and a byte 32 whose high nibble
\* is not 0xC adds exactly 1 to the bad-frame counter, removes exactly the
\* first byte of the buffer, writes nothing and leaves the good-frame counter.
C4_SingleByteResync ==
    [][(/\ Len(tcpBuffer) >= FrameLen
        /\ tcpBuffer[1] = SyncByte
        /\ tcpBuffer[FrameLen] \div 16 # StopNibble)
       => /\ stats'.tcpFramesBad = stats.tcpFramesBad + 1
          /\ tcpBuffer' = Tail(tcpBuffer)
          /\ Len(tcpBuffer') = Len(tcpBuffer) - 1
          /\ serialOut' = serialOut
          /\ stats'.tcpFramesOk = stats.tcpFramesOk
          /\ stats'.serialFrames = stats.serialFrames]_vars

\* C4 witness: a malformed candidate has been rejected and the bytes behind
\* its first byte are still buffered.
C4_Witness ==
    /\ stats.tcpFramesBad = 1
    /\ Len(tcpBuffer) >= FrameLen - 1
    /\ serialOut = <<>>

----------------------------------------------------------------------------
(* Claims about the Flow Coordinator, checked under SpecTcp *)

\* C5: pause() is only ever called on a socket that is not paused and
\* resume() only on a socket that is paused, over every sequence of frame
\* writes, drain signals, connection accepts and connection closes.
C5_NoRedundantFlow == flowErr = {}

----------------------------------------------------------------------------
(* Claims about the Command Dispatch Queue, checked under SpecQueue *)

Unfinished == {i \in 1..Len(cmdQ) : cmdQ[i].phase # "done"}
Executing == {i \in 1..Len(cmdQ) : cmdQ[i].phase \in {"json", "text", "settled"}}
PostsOf(i) == LET Mine(p) == p.owner = i IN SelectSeq(posts, Mine)
JsonPosts == LET IsJson(p) == p.enc = "json" IN SelectSeq(posts, IsJson)

\* C6: FIFO dispatch.  The k-th dispatch started is the k-th token enqueued;
\* a token's dispatch has not started unless the one before it has finished,
\* fallback included, whether that one succeeded, failed or threw; the POSTs
\* of one token are never interleaved with another's; and at most one
\* dispatch is executing.
C6_FifoDispatch ==
    /\ \A k \in 1..Len(JsonPosts) :
          JsonPosts[k].owner = k /\ JsonPosts[k].cmd = cmdQ[k].cmd
    /\ \A i \in 2..Len(cmdQ) :
          cmdQ[i].phase # "queued" => cmdQ[i - 1].phase = "done"
    /\ \A k \in 2..Len(posts) : posts[k - 1].owner <= posts[k].owner
    /\ Cardinality(Executing) <= 1

\* C6 witness: the first dispatch threw, the second failed twice, and the
\* third, a different token, has been dispatched after them.
C6_Witness ==
    /\ Len(cmdQ) >= 3
    /\ cmdQ[1].threw
    /\ cmdQ[2].textRes = "fail"
    /\ cmdQ[3].phase = "json"
    /\ cmdQ[3].cmd # cmdQ[2].cmd

\* C7: cmdQueueDepth is the number of tokens passed to queueCmd whose
\* dispatch has not fully finished, the running one counted; it is never
\* negative and is 0 when the queue is idle.
C7_DepthCounter ==
    /\ cmdQueueDepth = Cardinality(Unfinished)
    /\ cmdQueueDepth >= 0
    /\ (Unfinished = {} => cmdQueueDepth = 0)

\* C7 witness: one dispatch threw and has finished, two more are counted.
C7_Witness ==
    /\ Len(cmdQ) >= 3
    /\ cmdQ[1].phase = "done"
    /\ cmdQ[1].threw
    /\ cmdQ[2].phase = "text"
    /\ cmdQueueDepth = 2

\* C8: single fallback encoding.  Every finished dispatch made the JSON POST
\* first; when that call did not succeed (a non-2xx response or a transport
\* failure) it made exactly one more POST, the same token as text/plain;
\* when it succeeded it made no second POST.
C8_SingleFallback ==
    \A i \in 1..Len(cmdQ) :
        cmdQ[i].phase \in {"settled", "done"} =>
            LET mine == PostsOf(i)
            IN  /\ Len(mine) >= 1
                /\ mine[1] = PostOf(cmdQ[i].cmd, "json", i)
                /\ IF cmdQ[i].jsonRes = "ok"
                   THEN Len(mine) = 1
                   ELSE /\ Len(mine) = 2
                        /\ mine[2] = PostOf(cmdQ[i].cmd, "text", i)

----------------------------------------------------------------------------
(* Claims about the Command Tokenizer, checked under SpecCmd *)

\* the tokens passed to queueCmd so far, in order
TokensOut == [i \in 1..Len(cmdQ) |-> cmdQ[i].cmd]

\* C9 as the spec states it: once the bytes of "start34X" have been fed from
\* an empty accumulator, exactly one token, "start34X", has been emitted.
C9_Start34XOneToken ==
    (serialFed = Start34X /\ serialIn = <<>>) =>
        TokensOut = <<Start34X>> /\ cmdBuf = <<>>

\* C9 amended: a text whose first character is not a single-character
\* command, that holds no terminator before its last byte and ends in X or
\* Z, emits nothing until that byte and then itself as one token.  In
\* "start34X" the leading s is a single-character command: it is emitted by
\* itself when it is processed, and "tart34X" is emitted at the X.  Both
\* leave the accumulator empty.
C9_PrefixXToken ==
    /\ (serialFed \o serialIn = Tart34X) =>
          IF serialIn = <<>>
          THEN TokensOut = <<Tart34X>> /\ cmdBuf = <<>>
          ELSE TokensOut = <<>> /\ cmdBuf = serialFed
    /\ (serialFed \o serialIn = Start34X /\ serialFed # <<>>) =>
          IF serialIn = <<>>
          THEN TokensOut = <<(<<ChS>>), Tart34X>> /\ cmdBuf = <<>>
          ELSE TokensOut = <<(<<ChS>>)>> /\ cmdBuf = Tail(serialFed)

\* C9 witness: "start34X" has been fed and both tokens are out.
C9_Witness ==
    /\ serialFed = Start34X
    /\ serialIn = <<>>
    /\ Len(cmdQ) = 2
    /\ Len(seqs) = 1

----------------------------------------------------------------------------
(* Claims about the Stream Lifecycle Controller, checked under SpecLife *)

\* C10: single start trigger.  With no initialization string and no channel
\* commands configured and exactly one 'b' received, the sequence, once it
\* has come to its end, has issued exactly one stop-stream call, no
\* initialization or channel command call and exactly one start-stream call,
\* that one no earlier than 1 second after the sequence began.
C10_SingleStartScenario ==
    (/\ initCmd = <<>>
     /\ channelCmds = <<>>
     /\ serialFed = <<ChB>>
     /\ serialIn = <<>>
     /\ seqs[1].pc \in {"done", "aborted"})
    => /\ seqs[1].log = <<"stop", "start">>
       /\ seqs[1].startAt >= seqs[1].began + TimerDelay

\* the start sequences ('b' triggers) read so far
StartSeqs == {i \in 1..Len(seqs) : seqs[i].kind = "start"}

\* C11: a remote call failure never aborts the lifecycle sequence.  Whatever
\* the stop-stream call, the initialization command or a channel command
\* came to, a response or a transport failure, no 'b'-triggered sequence is
\* left before its later steps and its start-stream call.
C11_FailureNeverAborts ==
    \A i \in StartSeqs : seqs[i].pc # "aborted"

\* C12: strict step order within one 'b'-triggered sequence.  When the
\* stop-stream call of a sequence has been issued, the network
\* reconfiguration that the first activation of the listener requests has
\* been issued and has completed; the calls of the sequence are a prefix of
\* stop-stream, initialization command if configured, channel commands in
\* ascending index, start-stream; and start-stream is issued no earlier
\* than 1 second after the sequence began.
StepsInOrder ==
    <<"stop">> \o (IF initCmd # <<>> THEN <<"init">> ELSE <<>>)
               \o [k \in 1..Len(channelCmds) |-> "chan"] \o <<"start">>
C12_StrictStepOrder ==
    \A i \in StartSeqs :
        seqs[i].log # <<>> =>
            /\ listener = "configured"
            /\ Len(seqs[i].log) <= Len(StepsInOrder)
            /\ seqs[i].log = SubSeq(StepsInOrder, 1, Len(seqs[i].log))
            /\ (seqs[i].startAt >= 0 =>
                   seqs[i].startAt >= seqs[i].began + TimerDelay)

----------------------------------------------------------------------------
(* Claims about connections, checked under SpecTcp *)

\* C13: closing the TCP connection resets both the Receive Buffer and the
\* Flow Control Flag.  In the state right after a close event has been
\* handled the Receive Buffer is empty and pausedBySerialBackpressure is
\* false, whatever they were before.
C13_CloseResetsBufferAndFlag ==
    [][(\E s \in open : s \notin open')
       => /\ tcpBuffer' = <<>>
          /\ pausedBySerialBackpressure' = FALSE]_vars

\* C15: one active peer connection at a time.  Once a connection has been
\* replaced, its events leave the Receive Buffer and the emitted frames
\* alone: the close of a connection that is not the tracked one does not
\* clear the Receive Buffer, and data that arrives while the tracked
\* connection is paused, which only a replaced connection can deliver, is
\* neither appended to the Receive Buffer nor forwarded.
C15_ReplacedConnectionInert ==
    [][/\ (\E s \in open : /\ s \notin open'
                            /\ currentSocket # NoSocket
                            /\ s # currentSocket)
          => tcpBuffer' = tcpBuffer
       /\ (/\ currentSocket # NoSocket
           /\ currentSocket \in sockPaused
           /\ nChunks' # nChunks)
          => /\ tcpBuffer' = tcpBuffer
             /\ serialOut' = serialOut]_vars

----------------------------------------------------------------------------
(* Claims about the serial sink, checked under SpecLoop *)

\* C17: writes to an unavailable serial transport are silently dropped.  An
\* iteration that validates a frame while the serial transport is not
\* writable issues no write, removes the frame from the Receive Buffer,
\* does not pause the TCP source and leaves the Flow Control Flag, the
\* serial byte and frame counters and the backpressure counter as they
\* were; and no step at all writes anything while the transport is
\* unavailable, so the frame is not retried.
C17_UnavailableSerialDrops ==
    [][/\ (/\ ~serialWritable
           /\ Len(tcpBuffer) >= FrameLen
           /\ tcpBuffer[1] = SyncByte
           /\ tcpBuffer[FrameLen] \div 16 = StopNibble)
          => /\ serialOut' = serialOut
             /\ tcpBuffer' = SubSeq(tcpBuffer, FrameLen + 1, Len(tcpBuffer))
             /\ sockPaused' = sockPaused
             /\ pausedBySerialBackpressure' = pausedBySerialBackpressure
             /\ needDrain' = needDrain
             /\ stats'.serialBytes = stats.serialBytes
             /\ stats'.serialFrames = stats.serialFrames
             /\ stats'.serialBackpressure = stats.serialBackpressure
             /\ stats'.tcpFramesOk = stats.tcpFramesOk + 1
       /\ ~serialWritable => serialOut' = serialOut]_vars

\* C17 witness: with a peer connected and the serial transport unavailable
\* two frames have been validated and dropped.
C17_Witness ==
    /\ ~serialWritable
    /\ currentSocket # NoSocket
    /\ stats.tcpFramesOk = 2
    /\ tcpBuffer = <<>>
    /\ serialOut = <<>>
    /\ stats.serialFrames = 0
    /\ sockPaused = {}

----------------------------------------------------------------------------
(* Claims about triggers and the accumulator, checked under SpecCmd *)

Count(str, b) == Cardinality({i \in 1..Len(str) : str[i] = b})

Ab12X == <<97, 98, 49, 50, 88>>

\* C16: trigger detection is independent of tokenization.  In any chunking
\* the start sequences scheduled are as many as the 'b' bytes delivered and
\* the stop sequences as many as the 's' bytes, whatever the accumulator
\* held and whatever token the byte ended up in.
C16_TriggersCountBytes ==
    /\ Cardinality(StartSeqs) = Count(serialFed, ChB)
    /\ Len(seqs) - Cardinality(StartSeqs) = Count(serialFed, ChS)

\* C16 witness: "ab12X" has been delivered; its b lies inside the one token
\* "ab12X" and has scheduled one start sequence.
C16_Witness ==
    /\ serialFed = Ab12X
    /\ serialIn = <<>>
    /\ TokensOut = <<Ab12X>>
    /\ Cardinality(StartSeqs) = 1

AllA(str) == \A i \in 1..Len(str) : str[i] = 97

\* C19: the Pending Command Accumulator is bounded.  After every byte its
\* length is at most 256; a byte that ends no token and makes it longer
\* than 256 empties it, so a run of n bytes without a terminator leaves
\* n mod 257 of them and emits nothing; and every emitted token is
\* non-empty, trimmed and free of null, CR and LF bytes.
C19_AccumulatorBounded ==
    /\ Len(cmdBuf) <= CmdBufMax
    /\ AllA(serialFed) =>
          /\ Len(cmdBuf) = Len(serialFed) % (CmdBufMax + 1)
          /\ TokensOut = <<>>
    /\ \A i \in 1..Len(cmdQ) :
          LET tok == cmdQ[i].cmd
          IN  /\ tok # <<>>
              /\ Trim(tok) = tok
              /\ \A j \in 1..Len(tok) : tok[j] \notin {ChNul, ChCR, ChLF}

\* C19 witness: 257 bytes without a terminator have been delivered and the
\* accumulator has been emptied by the 257th.
C19_Witness ==
    /\ Len(serialFed) = CmdBufMax + 1
    /\ AllA(serialFed)
    /\ cmdBuf = <<>>
    /\ cmdQ = <<>>

\* feedCmdBytes called once, from an empty accumulator, with all of bytes
FedAtOnce(bytes) ==
    FeedCmdBytes([cmdBuf |-> <<>>, cmdQ |-> <<>>, cmdQueueDepth |-> 0], bytes)

NotNul(b) == b # ChNul

\* C20: chunk-boundary independence of the Command Tokenizer.  However the
\* bytes delivered so far were split into chunks, the tokens passed to
\* queueCmd and the accumulator are those of one feedCmdBytes call with all
\* of them, and those of the same bytes with every 0x00 taken out.
C20_TokenizerChunkIndependence ==
    LET one == FedAtOnce(serialFed)
        bare == FedAtOnce(SelectSeq(serialFed, NotNul))
    IN  /\ cmdBuf = one.cmdBuf
        /\ cmdQ = one.cmdQ
        /\ cmdBuf = bare.cmdBuf
        /\ cmdQ = bare.cmdQ

\* C20 witness: a text with null bytes in it is being delivered in pieces:
\* the X of the first piece is out as a token and more is to come.
C20_Witness ==
    /\ serialFed = <<0, 88, 0>>
    /\ serialIn = <<89, 0>>
    /\ TokensOut = <<(<<88>>)>>
    /\ cmdBuf = <<>>

----------------------------------------------------------------------------
(* Claims about the listener, checked under SpecLife *)

\* the timer of a 'b' trigger fires in this step: startServer() is called
StartServerCalled ==
    \E i \in StartSeqs : seqs[i].pc = "timer" /\ seqs'[i].pc = "stop"

\* C18: listener activation is idempotent.  Over any number and
\* interleaving of 'b' triggers server.listen is called at most once, by
\* the first startServer(); the /tcp reconfiguration is requested at most
\* once, with at most one retry; and a startServer() that finds
\* serverStarted set changes nothing.
C18_ListenerIdempotent ==
    [][/\ (listener' = "binding" /\ listener # "binding")
          => (~serverStarted /\ listener = "off" /\ StartServerCalled)
       /\ Count(tcpLog', "tcp") <= 1
       /\ Count(tcpLog', "tcp_retry") <= 1
       /\ (StartServerCalled /\ serverStarted)
          => UNCHANGED <<serverStarted, listener, tcpLog>>]_vars

\* C18 witness: two 'b' triggers have both run startServer(), after the
\* listener the first one started had been configured, and /tcp has been
\* requested once.
C18_Witness ==
    /\ Len(seqs) = 2
    /\ StartSeqs = {1, 2}
    /\ seqs[1].log # <<>>
    /\ seqs[2].log # <<>>
    /\ seqs[2].began > seqs[1].began
    /\ listener = "configured"
    /\ tcpLog = <<"tcp">>
    /\ alive

----------------------------------------------------------------------------
(* Claims about the Stream Lifecycle Controller, checked under SpecLive *)

\* sequence i is a start sequence and has requested /stream/start
StartIssued(i) == i \in StartSeqs /\ seqs[i].startAt >= 0

\* C14: no cancellation of a scheduled lifecycle sequence.  When timers
\* fire and every remote call returns a response, a 'b' byte that has been
\* read leads to the start-stream call of its sequence, whatever 's' and
\* 'b' bytes are read and whatever connections close afterwards.  (A
\* listener that cannot bind ends the process, and the sequences with it.)
C14_StartNeverCancelled ==
    \A i \in 1..2 :
        (i \in StartSeqs) ~> (StartIssued(i) \/ listener = "failed")

\* C14 witness: a 'b' and then an 's' were read; the stop sequence of the
\* 's' ran to its end before the start sequence of the 'b' got to its
\* start-stream call, which it then issued, with no connection left open.
C14_Witness ==
    /\ serialFed = <<ChB, ChS>>
    /\ seqs[2].pc = "done"
    /\ seqs[1].began >= seqs[2].began
    /\ StartIssued(1)
    /\ currentSocket = NoSocket
    /\ alive

====
